---- MODULE Spec2Model ----
(***************************************************************************)
(* LineCounter (src/main.cpp): a pool of thread_count workers first lists  *)
(* the source files under the root search paths (ListAllFilesInsidePaths)  *)
(* and then counts their source lines (LineCountThreadTask, GetSloc),      *)
(* synchronised through one Semaphore {count, target}; main waits for      *)
(* count = 0 and prints the total.                                          *)
(*                                                                         *)
(* ECSEngine library calls are modelled by what the call sites rely on:    *)
(*   Semaphore::Enter(n)  = count.fetch_add(n), Exit() = count.fetch_sub(1) *)
(*                          returning the value before the subtraction,    *)
(*   Semaphore::SpinWait(-1, v) / TickWait(ms, v) = wait until target = v / *)
(*                          count = v,                                      *)
(*   AtomicStream::RequestInt(n) = size.fetch_add(n) (unchecked),          *)
(*   AtomicStream::FinishRequest(n) = written_count.fetch_add(n),          *)
(*   function::SkipWhitespace = skip ' ' and '\t',                         *)
(*   function::FindToken = offsets of every occurrence of the token.       *)
(* unsigned int and size_t arithmetic is modular; the word is scaled to    *)
(* UIntBits bits so that the model checker's integers hold it.             *)
(***************************************************************************)
EXTENDS Integers, Sequences, FiniteSets, TLC

\* ------------------------------------------------------------------ bounds
\* Longest comment-stripped text given to GetSloc on its own.
MaxLen == 5
\* Longest run of stale bytes left in file_buffer behind content.size.
MaxTail == 1

\* ------------------------------------------------------------- characters
NUL == "NUL"
NewLine == "\n"
Space == " "
Tab == "\t"

\* Characters the bounded texts are built from: an identifier character,
\* a blank, a line terminator, a brace.
Alphabet == {"a", Space, NewLine, "{"}

\* Bytes that may be left behind the end of a shrunk buffer.
StaleBytes == {"a", Space}

\* All sequences over S of length at most n.
SeqUpTo(S, n) == UNION {[1..k -> S] : k \in 0..n}

\* unsigned int / size_t: arithmetic modulo 2^UIntBits.
UIntBits == 16
UIntModulus == 2^UIntBits
USub(a, b) == (a - b + UIntModulus) % UIntModulus
UAdd(a, b) == (a + b) % UIntModulus
\* (unsigned)-1, the value the callers compare against for "error".
MinusOne == UIntModulus - 1

MAX_NEW_LINES_PER_FILE == 131072

\* function::IsCodeIdentifierCharacter: letter, digit or underscore.
IsCodeIdentifierCharacter(c) == c \in {"a", "b", "1", "_"}

\* file_buffer as the pointer arithmetic sees it: the content, whatever
\* bytes follow content.size, and the terminator that ends every scan.
Memory(text, stale) == text \o stale \o <<NUL>>

\* buffer[i], 0-based.
CharAt(mem, i) == IF i + 1 <= Len(mem) THEN mem[i + 1] ELSE NUL

\* function::SkipWhitespace(pointer): first offset >= p that holds neither
\* a space nor a tab.
RECURSIVE SkipWhitespace(_, _)
SkipWhitespace(mem, p) ==
    IF CharAt(mem, p) \in {Space, Tab} THEN SkipWhitespace(mem, p + 1) ELSE p

\* function::FindToken(content, '\n', positions): offsets (0-based) of every
\* line terminator inside content, in increasing order.
RECURSIVE FindTokenFrom(_, _)
FindTokenFrom(text, i) ==
    IF i > Len(text) THEN <<>>
    ELSE (IF text[i] = NewLine THEN <<i - 1>> ELSE <<>>) \o FindTokenFrom(text, i + 1)
FindToken(text) == FindTokenFrom(text, 1)

\* A mutant of AreSlocCharacters: any non-blank line has sloc characters.
AreSlocCharactersNoScan(mem, first, end) == SkipWhitespace(mem, first) <= end

\* AreSlocCharacters(first, end): true if [first, end) holds an identifier
\* character.
AreSlocCharacters(mem, first, end) ==
    LET f == SkipWhitespace(mem, first)
    IN  IF f > end THEN FALSE
        ELSE \E i \in f..(end - 1) : IsCodeIdentifierCharacter(CharAt(mem, i))

\* A mutant of verify_line: the blank-line branch does not return and the
\* line is judged a second time.
verify_lineFallsThrough(mem, cur, last, sloc) ==
    LET first_char_non_space == SkipWhitespace(mem, cur)
        blank == IF first_char_non_space = last THEN USub(sloc, 1) ELSE sloc
    IN  USub(blank, IF AreSlocCharacters(mem, first_char_non_space, last) THEN 0 ELSE 1)

\* The verify_line lambda of GetSloc: the new sloc_count for the line that
\* starts at current_character and ends at last_line_character_offset.
verify_line(mem, cur, last, sloc) ==
    LET first_char_non_space == SkipWhitespace(mem, cur)
    IN  IF first_char_non_space = last THEN USub(sloc, 1)
        ELSE USub(sloc, IF AreSlocCharacters(mem, first_char_non_space, last) THEN 0 ELSE 1)

\* GetSloc as one function: the loop over new_line_positions, then the last
\* line up to content.size.
RECURSIVE GetSlocLoop(_, _, _, _, _, _)
GetSlocLoop(mem, size, positions, index, cur, sloc) ==
    IF index <= Len(positions)
    THEN GetSlocLoop(mem, size, positions, index + 1, positions[index] + 1,
                     verify_line(mem, cur, positions[index], sloc))
    ELSE verify_line(mem, cur, size, sloc)
GetSloc(text, stale) ==
    LET positions == FindToken(text)
    IN  GetSlocLoop(Memory(text, stale), Len(text), positions, 1, 0,
                    UAdd(Len(positions), 1))

\* ------------------------------------------------------- comment removal
\* function::RemoveSingleLineComment(buffer, "//"): the text from each "//"
\* up to (not including) the next line terminator is removed.
RECURSIVE RemoveSingleLineCommentFrom(_, _, _)
RemoveSingleLineCommentFrom(text, i, inComment) ==
    IF i > Len(text) THEN <<>>
    ELSE IF inComment
         THEN IF text[i] = NewLine
              THEN <<NewLine>> \o RemoveSingleLineCommentFrom(text, i + 1, FALSE)
              ELSE RemoveSingleLineCommentFrom(text, i + 1, TRUE)
         ELSE IF i < Len(text) /\ text[i] = "/" /\ text[i + 1] = "/"
              THEN RemoveSingleLineCommentFrom(text, i + 2, TRUE)
              ELSE <<text[i]>> \o RemoveSingleLineCommentFrom(text, i + 1, FALSE)
RemoveSingleLineComment(text) == RemoveSingleLineCommentFrom(text, 1, FALSE)

\* Offset of the first "xy" at or after i, 0 if there is none.
RECURSIVE FindPair(_, _, _, _)
FindPair(text, i, x, y) ==
    IF i >= Len(text) THEN 0
    ELSE IF text[i] = x /\ text[i + 1] = y THEN i
    ELSE FindPair(text, i + 1, x, y)

\* An open token with no close token behind it.
HasUnterminatedComment(text) ==
    LET RECURSIVE Scan(_)
        Scan(i) ==
            LET open == FindPair(text, i, "/", "*")
            IN  IF open = 0 THEN FALSE
                ELSE LET close == FindPair(text, open + 2, "*", "/")
                     IN  IF close = 0 THEN TRUE ELSE Scan(close + 2)
    IN  Scan(1)

\* function::RemoveMultiLineComments(buffer, "/*", "*/"): every region from
\* an open token to the nearest following close token is removed; the text
\* from an open token that is never closed is left as it is.
RECURSIVE RemoveMultiLineCommentsFrom(_, _)
RemoveMultiLineCommentsFrom(text, i) ==
    LET open == FindPair(text, i, "/", "*")
    IN  IF open = 0 THEN SubSeq(text, i, Len(text))
        ELSE LET close == FindPair(text, open + 2, "*", "/")
             IN  IF close = 0 THEN SubSeq(text, i, Len(text))
                 ELSE SubSeq(text, i, open - 1)
                      \o RemoveMultiLineCommentsFrom(text, close + 2)
RemoveMultiLineComments(text) == RemoveMultiLineCommentsFrom(text, 1)

\* ------------------------------------------------------------- partitions
\* A mutant of ThreadPartitionLoop: the remainder is never handed out.
RECURSIVE ThreadPartitionLoopNoRemainder(_, _, _, _, _)
ThreadPartitionLoopNoRemainder(threads, per_thread, remainder, index, total) ==
    IF index > threads THEN <<>>
    ELSE <<[offset |-> total, size |-> per_thread]>>
         \o ThreadPartitionLoopNoRemainder(threads, per_thread, remainder, index + 1,
                                           total + per_thread)

\* The loop of ThreadPartitionStream: partition index takes one more item
\* while a remainder is left; its offset is the running total.
RECURSIVE ThreadPartitionLoop(_, _, _, _, _)
ThreadPartitionLoop(threads, per_thread, remainder, index, total) ==
    IF index > threads THEN <<>>
    ELSE LET has_remainder == IF remainder > 0 THEN 1 ELSE 0
             size == per_thread + has_remainder
         IN  <<[offset |-> total, size |-> size]>>
             \o ThreadPartitionLoop(threads, per_thread, remainder - has_remainder,
                                    index + 1, total + size)

\* ThreadPartitionStream(indices, task_count) with indices.size = threads.
\* The value returned is the number of partitions that are not empty.
ThreadPartitionStream(threads, task_count) ==
    LET per_thread == task_count \div threads
        remainder == task_count % threads
    IN  [parts |-> ThreadPartitionLoop(threads, per_thread, remainder, 1, 0),
         count |-> IF per_thread = 0 THEN remainder ELSE threads]

\* ------------------------------------------------------------------ input
\* Largest std::thread::hardware_concurrency() explored.
MaxThreads == 3

\* Capacity of the Discovered-File Collection. The program's value is
\* ECS_KB * 256; it is scaled down so that a tree with more files than the
\* collection holds can be explored.
MAX_FILES == 2

\* Contents of line_count.in that are explored.
SearchFiles == {
    <<>>,
    <<"p", "1", NewLine>>,
    <<"p", "2", NewLine>>,
    <<"p", "1", NewLine, "p", "2", NewLine>>,
    <<"p", "2", NewLine, Space, NewLine>> }

\* The source files (with a recognised extension) that the recursive walk of
\* a directory reports, in the order it reports them.
DirectoryTree(path) ==
    IF path = <<"p", "1">> THEN <<"A", "B">>
    ELSE IF path = <<"p", "2">> THEN <<"C">>
    ELSE <<>>

\* What each source file holds.
FileText(f) ==
    IF f = "A" THEN <<"a", "{", NewLine, NewLine, "/", "/", "a", NewLine, "{", NewLine, "a">>
    ELSE IF f = "B" THEN <<Space, NewLine, "/", "*", "a", NewLine, "a", "*", "/", "a">>
    ELSE <<"a", NewLine, "/", "*", "a">>

AllFiles == {"A", "B", "C"}
NoFile == "none"

\* main, lines 261-285: the stored root paths. One iteration of the loop per
\* line terminator; a line is skipped when SkipWhitespace from the second
\* character of the line stops at its terminator.
RECURSIVE ReadSearchPaths(_, _, _, _)
ReadSearchPaths(text, positions, index, starting_position) ==
    IF index > Len(positions) THEN <<>>
    ELSE LET nl == positions[index]
             whitespace == SkipWhitespace(Memory(text, <<>>), starting_position + 1)
         IN  IF whitespace = nl
             THEN ReadSearchPaths(text, positions, index + 1, nl + 1)
             ELSE <<SubSeq(text, starting_position + 1, nl)>>
                  \o ReadSearchPaths(text, positions, index + 1, nl + 1)

\* const unsigned int signal_initialization_finished = -2
signal_initialization_finished == UIntModulus - 2

\* ------------------------------------------------------------------ state
VARIABLES
    \* GetSloc run on its own
    content,                \* Stream<char> content (comment-stripped)
    tail,                   \* bytes of the buffer behind content.size
    new_line_positions,     \* CapacityStream<unsigned int>
    sloc_count,
    current_character,
    line_index,             \* index of the for loop, 0-based
    sloc_pc,                \* "find", "loop", "done", "idle"
    \* ThreadPartitionStream run on its own
    part_threads,
    part_items,
    part_result,
    part_pc,                \* "call", "done", "idle"
    \* the pipeline
    aborted,                \* "no", or what ended the process abnormally
    thread_count,
    search_file,            \* text of line_count.in
    search_paths,           \* Stream<Stream<wchar_t>>: the stored paths
    search_paths_count,
    list_partitions,        \* list_data.thread_partitions
    source_files,           \* AtomicStream: size, written_count, buffer
    overflow,               \* writes behind buffer[MAX_FILES - 1]
    semaphore,              \* semaphore_barrier: count, target
    count_partitions,       \* count_data.thread_partitions
    total_line_count,
    pc,                     \* where each worker thread is
    local,                  \* the locals of each worker's task
    error_message,          \* per thread
    additional_display_message,
    file_status,            \* what OpenFile / ReadFromFile / GetSloc gave for each file
    main_pc,                \* "tick_wait", "load", "report", "returned"
    line_message,           \* the total that main printed
    report                  \* the blocks main printed, in thread order

slocVars == <<content, tail, new_line_positions, sloc_count, current_character,
              line_index, sloc_pc>>
partVars == <<part_threads, part_items, part_result, part_pc>>
inputVars == <<thread_count, search_file, search_paths, search_paths_count,
               list_partitions>>
messageVars == <<error_message, additional_display_message, file_status>>
mainVars == <<main_pc, line_message, report>>
pipeVars == <<aborted, inputVars, source_files, overflow, semaphore,
              count_partitions, total_line_count, pc, local, messageVars, mainVars>>

vars == <<slocVars, partVars, pipeVars>>

Threads == 0..(thread_count - 1)

\* The parts of the state that a specification does not use.
SlocIdle ==
    /\ content = <<>>
    /\ tail = <<>>
    /\ new_line_positions = <<>>
    /\ sloc_count = 0
    /\ current_character = 0
    /\ line_index = 0
    /\ sloc_pc = "idle"

PartIdle ==
    /\ part_threads = 1
    /\ part_items = 0
    /\ part_result = <<>>
    /\ part_pc = "idle"

PipeIdle ==
    /\ aborted = "no"
    /\ thread_count = 0
    /\ search_file = <<>>
    /\ search_paths = <<>>
    /\ search_paths_count = 0
    /\ list_partitions = <<>>
    /\ source_files = [size |-> 0, written_count |-> 0, buffer |-> <<>>]
    /\ overflow = {}
    /\ semaphore = [count |-> 0, target |-> 0]
    /\ count_partitions = <<>>
    /\ total_line_count = 0
    /\ pc = <<>>
    /\ local = <<>>
    /\ error_message = <<>>
    /\ additional_display_message = <<>>
    /\ file_status = <<>>
    /\ main_pc = "idle"
    /\ line_message = -1
    /\ report = <<>>

\* --------------------------------------------------------- GetSloc, stepwise
SlocInit ==
    /\ content \in SeqUpTo(Alphabet, MaxLen)
    /\ tail \in SeqUpTo(StaleBytes, MaxTail)
    /\ new_line_positions = <<>>
    /\ sloc_count = 0
    /\ current_character = 0
    /\ line_index = 0
    /\ sloc_pc = "find"
    /\ PartIdle
    /\ PipeIdle

\* Lines 40-47: FindToken, the assertion, sloc_count = size + 1.
SlocFindToken ==
    /\ sloc_pc = "find"
    /\ new_line_positions' = FindToken(content)
    /\ sloc_pc' = IF Len(new_line_positions') < MAX_NEW_LINES_PER_FILE
                  THEN "loop" ELSE "assert_failed"
    /\ sloc_count' = UAdd(Len(new_line_positions'), 1)
    /\ current_character' = 0
    /\ line_index' = 0
    /\ UNCHANGED <<content, tail, partVars, pipeVars>>

\* Lines 66-69: one iteration of the loop over the line terminators.
SlocVerifyLine ==
    /\ sloc_pc = "loop"
    /\ line_index < Len(new_line_positions)
    /\ LET last == new_line_positions[line_index + 1]
       IN  /\ sloc_count' = verify_line(Memory(content, tail), current_character,
                                        last, sloc_count)
           /\ current_character' = last + 1
    /\ line_index' = line_index + 1
    /\ UNCHANGED <<content, tail, new_line_positions, sloc_pc, partVars, pipeVars>>

\* Lines 71-75: the last line, ending at content.size, and the return.
SlocVerifyLast ==
    /\ sloc_pc = "loop"
    /\ line_index = Len(new_line_positions)
    /\ sloc_count' = verify_line(Memory(content, tail), current_character,
                                 Len(content), sloc_count)
    /\ current_character' = Len(content) + 1
    /\ sloc_pc' = "done"
    /\ UNCHANGED <<content, tail, new_line_positions, line_index, partVars, pipeVars>>

SlocNext == SlocFindToken \/ SlocVerifyLine \/ SlocVerifyLast

SpecSloc == SlocInit /\ [][SlocNext]_vars

\* ------------------------------------------- ThreadPartitionStream, on its own
\* Largest item count and worker count given to the partitioner on its own.
MaxItems == 12
MaxWorkers == 8

PartInit ==
    /\ part_threads \in 1..MaxWorkers
    /\ part_items \in 0..MaxItems
    /\ part_result = <<>>
    /\ part_pc = "call"
    /\ SlocIdle
    /\ PipeIdle

PartitionCall ==
    /\ part_pc = "call"
    /\ part_result' = ThreadPartitionStream(part_threads, part_items)
    /\ part_pc' = "done"
    /\ UNCHANGED <<part_threads, part_items, slocVars, pipeVars>>

PartNext == PartitionCall

SpecPartition == PartInit /\ [][PartNext]_vars

\* --------------------------------------------------------------- pipeline
\* The state when main has created the threads (line 356): the root paths
\* are read, the listing partitions computed, the semaphore entered with
\* thread_count * 2 + 1 and its target cleared, every buffer empty.
Init ==
    /\ SlocIdle
    /\ PartIdle
    /\ aborted = "no"
    /\ thread_count \in 1..MaxThreads
    /\ search_file \in SearchFiles
    /\ search_paths_count = Len(FindToken(search_file))
    /\ search_paths = ReadSearchPaths(search_file, FindToken(search_file), 1, 0)
    /\ list_partitions = ThreadPartitionStream(thread_count, search_paths_count).parts
    /\ source_files = [size |-> 0, written_count |-> 0,
                       buffer |-> [i \in 0..(MAX_FILES - 1) |-> NoFile]]
    /\ overflow = {}
    /\ semaphore = [count |-> thread_count * 2 + 1, target |-> 0]
    /\ count_partitions = [i \in 1..thread_count |-> [offset |-> -1, size |-> -1]]
    /\ total_line_count = 0
    /\ pc = [t \in Threads |-> "list"]
    /\ local = [t \in Threads |->
                  [root_index |-> 0, file_index |-> 0, position |-> 0,
                   enter_index |-> 0, partitioning_thread_count |-> 0,
                   index |-> 0, errors |-> 0, thread_sloc |-> 0,
                   branch |-> "none"]]
    /\ error_message = [t \in Threads |-> <<>>]
    /\ additional_display_message = [t \in Threads |-> <<>>]
    /\ file_status = [f \in AllFiles |-> "unknown"]
    /\ main_pc = "tick_wait"
    /\ line_message = -1
    /\ report = <<>>

\* A thread runs until the process is aborted or main returns.
Running == aborted = "no" /\ main_pc # "returned"

\* Semaphore::Exit(): count.fetch_sub(1).
Exit(sem) == [sem EXCEPT !.count = USub(sem.count, 1)]
\* Semaphore::Enter(n): count.fetch_add(n).
Enter(sem, n) == [sem EXCEPT !.count = UAdd(sem.count, n)]

\* ---- ListAllFilesInsidePaths (lines 197-237)
\* The root the worker is at (0-based index into search_paths).
RootOf(t) == list_partitions[t + 1].offset + local[t].root_index
ListingOf(t) == DirectoryTree(search_paths[RootOf(t) + 1])

\* Line 223: the functor reserves a slot for the next file of the walk.
ListRequest(t) ==
    /\ Running /\ pc[t] = "list"
    /\ local[t].root_index < list_partitions[t + 1].size
    /\ RootOf(t) < Len(search_paths)
    /\ local[t].file_index < Len(ListingOf(t))
    /\ local' = [local EXCEPT ![t].position = source_files.size]
    /\ source_files' = [source_files EXCEPT !.size = UAdd(source_files.size, 1)]
    /\ pc' = [pc EXCEPT ![t] = "list_write"]
    /\ UNCHANGED <<slocVars, partVars, aborted, inputVars, overflow, semaphore,
                   count_partitions, total_line_count, messageVars, mainVars>>

\* Lines 224-226: the path is stored at the reserved position and the
\* request finished. A position behind the buffer is written all the same:
\* the write lands in foreign memory or ends the process.
ListWrite(t) ==
    /\ Running /\ pc[t] = "list_write"
    /\ LET position == local[t].position
           file == ListingOf(t)[local[t].file_index + 1]
           finished == [source_files EXCEPT
                          !.written_count = UAdd(source_files.written_count, 1)]
           advance == /\ local' = [local EXCEPT ![t].file_index = @ + 1]
                      /\ pc' = [pc EXCEPT ![t] = "list"]
       IN  IF position < MAX_FILES
           THEN /\ source_files' = [finished EXCEPT !.buffer[position] = file]
                /\ advance
                /\ UNCHANGED <<aborted, overflow>>
           ELSE \/ /\ overflow' = overflow \cup {<<position, file>>}
                   /\ source_files' = finished
                   /\ advance
                   /\ UNCHANGED aborted
                \/ /\ aborted' = "file_overflow"
                   /\ UNCHANGED <<overflow, source_files, local, pc>>
    /\ UNCHANGED <<slocVars, partVars, inputVars, semaphore, count_partitions,
                   total_line_count, messageVars, mainVars>>

\* Line 216: the walk of one root is over, the loop goes to the next root.
ListNextRoot(t) ==
    /\ Running /\ pc[t] = "list"
    /\ local[t].root_index < list_partitions[t + 1].size
    /\ RootOf(t) < Len(search_paths)
    /\ local[t].file_index = Len(ListingOf(t))
    /\ local' = [local EXCEPT ![t].root_index = @ + 1, ![t].file_index = 0]
    /\ UNCHANGED <<slocVars, partVars, aborted, inputVars, source_files, overflow,
                   semaphore, count_partitions, total_line_count, pc, messageVars,
                   mainVars>>

\* Line 218 with an index at or behind search_paths.size: the element was
\* allocated and never stored. The walk of it finds nothing or ends the
\* process.
ListUnstoredRoot(t) ==
    /\ Running /\ pc[t] = "list"
    /\ local[t].root_index < list_partitions[t + 1].size
    /\ RootOf(t) >= Len(search_paths)
    /\ \/ /\ local' = [local EXCEPT ![t].root_index = @ + 1, ![t].file_index = 0]
          /\ UNCHANGED aborted
       \/ /\ aborted' = "unstored_root"
          /\ UNCHANGED local
    /\ UNCHANGED <<slocVars, partVars, inputVars, source_files, overflow,
                   semaphore, count_partitions, total_line_count, pc, messageVars,
                   mainVars>>

\* Line 233: the partition is done (or empty), semaphore->Exit().
ListExit(t) ==
    /\ Running /\ pc[t] = "list"
    /\ local[t].root_index = list_partitions[t + 1].size
    /\ semaphore' = Exit(semaphore)
    /\ pc' = [pc EXCEPT ![t] = "list_arrive"]
    /\ UNCHANGED <<slocVars, partVars, aborted, inputVars, source_files, overflow,
                   count_partitions, total_line_count, local, messageVars, mainVars>>

\* Line 234: target.fetch_add(1).
ListArrive(t) ==
    /\ Running /\ pc[t] = "list_arrive"
    /\ semaphore' = [semaphore EXCEPT !.target = UAdd(semaphore.target, 1)]
    /\ pc' = [pc EXCEPT ![t] = "list_spin"]
    /\ UNCHANGED <<slocVars, partVars, aborted, inputVars, source_files, overflow,
                   count_partitions, total_line_count, local, messageVars, mainVars>>

\* A mutant of ListSpinWait: the thread leaves one registration early.
ListSpinWaitOneShort(t) ==
    /\ Running /\ pc[t] = "list_spin"
    /\ ~(semaphore.target < thread_count - 1)
    /\ pc' = [pc EXCEPT ![t] = "count_exit"]
    /\ UNCHANGED <<slocVars, partVars, aborted, inputVars, source_files, overflow,
                   semaphore, count_partitions, total_line_count, local,
                   messageVars, mainVars>>

\* A mutant of ListSpinWait: the thread does not wait for the others.
ListSpinWaitNoSpin(t) ==
    /\ Running /\ pc[t] = "list_spin"
    /\ pc' = [pc EXCEPT ![t] = "count_exit"]
    /\ UNCHANGED <<slocVars, partVars, aborted, inputVars, source_files, overflow,
                   semaphore, count_partitions, total_line_count, local,
                   messageVars, mainVars>>

\* Line 236: SpinWait<'<'>(target, thread_count) spins while target is
\* below thread_count; then the thread takes its counting task.
ListSpinWait(t) ==
    /\ Running /\ pc[t] = "list_spin"
    /\ ~(semaphore.target < thread_count)
    /\ pc' = [pc EXCEPT ![t] = "count_exit"]
    /\ UNCHANGED <<slocVars, partVars, aborted, inputVars, source_files, overflow,
                   semaphore, count_partitions, total_line_count, local,
                   messageVars, mainVars>>

\* ---- LineCountThreadTask (lines 90-188)
\* Line 96: enter_index = semaphore->Exit().
CountExit(t) ==
    /\ Running /\ pc[t] = "count_exit"
    /\ local' = [local EXCEPT ![t].enter_index = semaphore.count]
    /\ semaphore' = Exit(semaphore)
    /\ pc' = [pc EXCEPT ![t] = "count_elect"]
    /\ UNCHANGED <<slocVars, partVars, aborted, inputVars, source_files, overflow,
                   count_partitions, total_line_count, messageVars, mainVars>>

\* A mutant of IsLeader: the published sentinel is not looked at.
IsLeaderByIndexOnly(t) == local[t].enter_index = thread_count + 1

\* Line 97: the condition of the if.
IsLeader(t) ==
    /\ local[t].enter_index = thread_count + 1
    /\ semaphore.target # signal_initialization_finished

\* Line 97: the thread takes the initialising branch or the waiting branch.
CountElect(t) ==
    /\ Running /\ pc[t] = "count_elect"
    /\ pc' = [pc EXCEPT ![t] = IF IsLeader(t) THEN "lead_partition" ELSE "spin_wait"]
    /\ local' = [local EXCEPT ![t].branch = IF IsLeader(t) THEN "leader" ELSE "follower"]
    /\ UNCHANGED <<slocVars, partVars, aborted, inputVars, source_files, overflow,
                   semaphore, count_partitions, total_line_count, messageVars,
                   mainVars>>

\* Line 99: the counting partitions over files->size.
LeadPartition(t) ==
    /\ Running /\ pc[t] = "lead_partition"
    /\ LET result == ThreadPartitionStream(thread_count, source_files.size)
       IN  /\ count_partitions' = result.parts
           /\ local' = [local EXCEPT ![t].partitioning_thread_count = result.count]
    /\ pc' = [pc EXCEPT ![t] = "lead_store"]
    /\ UNCHANGED <<slocVars, partVars, aborted, inputVars, source_files, overflow,
                   semaphore, total_line_count, messageVars, mainVars>>

\* Line 101: target.store(signal_initialization_finished).
LeadStore(t) ==
    /\ Running /\ pc[t] = "lead_store"
    /\ semaphore' = [semaphore EXCEPT !.target = signal_initialization_finished]
    /\ pc' = [pc EXCEPT ![t] = "lead_enter"]
    /\ UNCHANGED <<slocVars, partVars, aborted, inputVars, source_files, overflow,
                   count_partitions, total_line_count, local, messageVars, mainVars>>

\* A mutant of LeadEnter: the counter is raised by partitioning_thread_count.
LeadEnterWholeCount(t) ==
    /\ Running /\ pc[t] = "lead_enter"
    /\ semaphore' = Enter(semaphore, local[t].partitioning_thread_count)
    /\ pc' = [pc EXCEPT ![t] = "work"]
    /\ UNCHANGED <<slocVars, partVars, aborted, inputVars, source_files, overflow,
                   count_partitions, total_line_count, local, messageVars, mainVars>>

\* Line 102: semaphore->Enter(partitioning_thread_count - 1).
LeadEnter(t) ==
    /\ Running /\ pc[t] = "lead_enter"
    /\ semaphore' = Enter(semaphore, USub(local[t].partitioning_thread_count, 1))
    /\ pc' = [pc EXCEPT ![t] = "work"]
    /\ UNCHANGED <<slocVars, partVars, aborted, inputVars, source_files, overflow,
                   count_partitions, total_line_count, local, messageVars, mainVars>>

\* A mutant of FollowerSpinWait: the follower does not wait for the sentinel.
FollowerSpinWaitNoWait(t) ==
    /\ Running /\ pc[t] = "spin_wait"
    /\ pc' = [pc EXCEPT ![t] = "work"]
    /\ UNCHANGED <<slocVars, partVars, aborted, inputVars, source_files, overflow,
                   semaphore, count_partitions, total_line_count, local,
                   messageVars, mainVars>>

\* Line 105: SpinWait(-1, signal_initialization_finished).
FollowerSpinWait(t) ==
    /\ Running /\ pc[t] = "spin_wait"
    /\ semaphore.target = signal_initialization_finished
    /\ pc' = [pc EXCEPT ![t] = "work"]
    /\ UNCHANGED <<slocVars, partVars, aborted, inputVars, source_files, overflow,
                   semaphore, count_partitions, total_line_count, local,
                   messageVars, mainVars>>

\* Lines 108-125: a thread with an empty partition leaves; the others write
\* the headers of their two buffers and start the loop.
Work(t) ==
    /\ Running /\ pc[t] = "work"
    /\ IF count_partitions[t + 1].size > 0
       THEN /\ error_message' = [error_message EXCEPT ![t] = Append(@, <<"header", "thread">>)]
            /\ additional_display_message' =
                   [additional_display_message EXCEPT
                      ![t] = Append(@, <<"header", "thread", 0>>)]
            /\ local' = [local EXCEPT ![t].index = 0, ![t].errors = 0,
                                      ![t].thread_sloc = 0]
            /\ pc' = [pc EXCEPT ![t] = "files"]
            /\ UNCHANGED file_status
       ELSE /\ pc' = [pc EXCEPT ![t] = "done"]
            /\ UNCHANGED <<local, messageVars>>
    /\ UNCHANGED <<slocVars, partVars, aborted, inputVars, source_files, overflow,
                   semaphore, count_partitions, total_line_count, mainVars>>

\* files->buffer[slot].
PathAt(slot) ==
    IF slot < MAX_FILES THEN source_files.buffer[slot]
    ELSE IF \E e \in overflow : e[1] = slot
         THEN (CHOOSE e \in overflow : e[1] = slot)[2]
         ELSE NoFile

\* A mutant of FileFailed: a failed read leaves no message.
FileFailedUnlogged(t, f, kind) ==
    /\ error_message' = [error_message EXCEPT
                           ![t] = IF kind = "read" THEN @ ELSE Append(@, <<kind, f>>)]
    /\ local' = [local EXCEPT ![t].index = @ + 1, ![t].errors = @ + 1]
    /\ file_status' = [file_status EXCEPT ![f] = kind]
    /\ UNCHANGED <<additional_display_message, aborted>>

\* A mutant of FileFailed: a failed open is logged and not counted.
FileFailedNotCounted(t, f, kind) ==
    /\ error_message' = [error_message EXCEPT ![t] = Append(@, <<kind, f>>)]
    /\ local' = [local EXCEPT ![t].index = @ + 1,
                              ![t].errors = IF kind = "open" THEN @ ELSE @ + 1]
    /\ file_status' = [file_status EXCEPT ![f] = kind]
    /\ UNCHANGED <<additional_display_message, aborted>>

\* Lines 135-139 and 165-168: the open or the read failed; the message goes
\* to the thread's error buffer and errors is incremented.
FileFailed(t, f, kind) ==
    /\ error_message' = [error_message EXCEPT ![t] = Append(@, <<kind, f>>)]
    /\ local' = [local EXCEPT ![t].index = @ + 1, ![t].errors = @ + 1]
    /\ file_status' = [file_status EXCEPT ![f] = kind]
    /\ UNCHANGED <<additional_display_message, aborted>>

\* Lines 148-159: the result of GetSloc is a parse error or is added.
FileParsed(t, f, sloc) ==
    IF sloc = MinusOne
    THEN /\ error_message' = [error_message EXCEPT ![t] = Append(@, <<"parse", f>>)]
         /\ local' = [local EXCEPT ![t].index = @ + 1]
         /\ file_status' = [file_status EXCEPT ![f] = "parse"]
         /\ UNCHANGED <<additional_display_message, aborted>>
    ELSE /\ local' = [local EXCEPT ![t].index = @ + 1,
                                   ![t].thread_sloc = UAdd(@, sloc)]
         /\ additional_display_message' =
                [additional_display_message EXCEPT ![t] = Append(@, <<"file", f, sloc>>)]
         /\ file_status' = [file_status EXCEPT ![f] = "counted"]
         /\ UNCHANGED <<error_message, aborted>>

\* Lines 127-169: one iteration of the loop over the thread's partition.
\* OpenFile and ReadFromFile succeed or fail; a multi-line comment that is
\* never closed ends the process or is left in the text.
CountFile(t) ==
    /\ Running /\ pc[t] = "files"
    /\ local[t].index < count_partitions[t + 1].size
    /\ LET current_path == PathAt(count_partitions[t + 1].offset + local[t].index)
           single == RemoveSingleLineComment(FileText(current_path))
       IN  \/ FileFailed(t, current_path, "open")
           \/ FileFailed(t, current_path, "read")
           \/ /\ HasUnterminatedComment(single)
              /\ aborted' = "multi_line_comment"
              /\ UNCHANGED <<local, messageVars>>
           \/ \E stale \in SeqUpTo(StaleBytes, MaxTail) :
                 FileParsed(t, current_path,
                            GetSloc(RemoveMultiLineComments(single), stale))
    /\ UNCHANGED <<slocVars, partVars, inputVars, source_files, overflow, semaphore,
                   count_partitions, total_line_count, pc, mainVars>>

\* Lines 171-180: the loop is over; the error buffer is emptied when no
\* error was counted, the subtotal goes to the additional buffer.
CountFinish(t) ==
    /\ Running /\ pc[t] = "files"
    /\ local[t].index = count_partitions[t + 1].size
    /\ error_message' = [error_message EXCEPT
                           ![t] = IF local[t].errors = 0 THEN <<>> ELSE @]
    /\ additional_display_message' =
           [additional_display_message EXCEPT
              ![t] = Append(@, <<"total", "thread", local[t].thread_sloc>>)]
    /\ pc' = [pc EXCEPT ![t] = "add_total"]
    /\ UNCHANGED <<slocVars, partVars, aborted, inputVars, source_files, overflow,
                   semaphore, count_partitions, total_line_count, local, file_status,
                   mainVars>>

\* Line 183: total_line_count->fetch_add(thread_sloc).
AddTotal(t) ==
    /\ Running /\ pc[t] = "add_total"
    /\ total_line_count' = UAdd(total_line_count, local[t].thread_sloc)
    /\ pc' = [pc EXCEPT ![t] = "final_exit"]
    /\ UNCHANGED <<slocVars, partVars, aborted, inputVars, source_files, overflow,
                   semaphore, count_partitions, local, messageVars, mainVars>>

\* Line 184: semaphore->Exit(), then ExitThread.
FinalExit(t) ==
    /\ Running /\ pc[t] = "final_exit"
    /\ semaphore' = Exit(semaphore)
    /\ pc' = [pc EXCEPT ![t] = "done"]
    /\ UNCHANGED <<slocVars, partVars, aborted, inputVars, source_files, overflow,
                   count_partitions, total_line_count, local, messageVars, mainVars>>

\* ---- main (lines 359-379)
\* A mutant of MainTickWait: main does not wait for the counter.
MainTickWaitNoWait ==
    /\ Running /\ main_pc = "tick_wait"
    /\ main_pc' = "load"
    /\ UNCHANGED <<slocVars, partVars, aborted, inputVars, source_files, overflow,
                   semaphore, count_partitions, total_line_count, pc, local,
                   messageVars, line_message, report>>

\* Line 359: TickWait(MAIN_THREAD_SLEEP_TICK, 0) returns when a poll reads
\* count = 0.
MainTickWait ==
    /\ Running /\ main_pc = "tick_wait"
    /\ semaphore.count = 0
    /\ main_pc' = "load"
    /\ UNCHANGED <<slocVars, partVars, aborted, inputVars, source_files, overflow,
                   semaphore, count_partitions, total_line_count, pc, local,
                   messageVars, line_message, report>>

\* Line 365: total_line_count->load() goes into the message.
MainLoadTotal ==
    /\ Running /\ main_pc = "load"
    /\ line_message' = total_line_count
    /\ main_pc' = "report"
    /\ UNCHANGED <<slocVars, partVars, aborted, inputVars, source_files, overflow,
                   semaphore, count_partitions, total_line_count, pc, local,
                   messageVars, report>>

\* Lines 369-379: the loop over the threads: a buffer is printed when its
\* size is above 0. Then main returns and the process ends.
MainReport ==
    /\ Running /\ main_pc = "report"
    /\ report' = [t \in Threads |->
                    [errors |-> error_message[t],
                     additional |-> additional_display_message[t]]]
    /\ main_pc' = "returned"
    /\ UNCHANGED <<slocVars, partVars, aborted, inputVars, source_files, overflow,
                   semaphore, count_partitions, total_line_count, pc, local,
                   messageVars, line_message>>

Next ==
    \/ \E t \in Threads : ListRequest(t)
    \/ \E t \in Threads : ListWrite(t)
    \/ \E t \in Threads : ListNextRoot(t)
    \/ \E t \in Threads : ListUnstoredRoot(t)
    \/ \E t \in Threads : ListExit(t)
    \/ \E t \in Threads : ListArrive(t)
    \/ \E t \in Threads : ListSpinWait(t)
    \/ \E t \in Threads : CountExit(t)
    \/ \E t \in Threads : CountElect(t)
    \/ \E t \in Threads : LeadPartition(t)
    \/ \E t \in Threads : LeadStore(t)
    \/ \E t \in Threads : LeadEnter(t)
    \/ \E t \in Threads : FollowerSpinWait(t)
    \/ \E t \in Threads : Work(t)
    \/ \E t \in Threads : CountFile(t)
    \/ \E t \in Threads : CountFinish(t)
    \/ \E t \in Threads : AddTotal(t)
    \/ \E t \in Threads : FinalExit(t)
    \/ MainTickWait
    \/ MainLoadTotal
    \/ MainReport

Spec == Init /\ [][Next]_vars

\* ----------------------------------------------------------------- claims
Range(seq) == {seq[i] : i \in 1..Len(seq)}

\* The files under the stored root paths.
FoundFiles ==
    UNION {Range(DirectoryTree(search_paths[i])) : i \in 1..Len(search_paths)}

\* The SLOC value of a file computed on its own.
SerialSloc(f) ==
    GetSloc(RemoveMultiLineComments(RemoveSingleLineComment(FileText(f))), <<>>)

RECURSIVE SumSloc(_)
SumSloc(files) ==
    IF files = {} THEN 0
    ELSE LET f == CHOOSE x \in files : TRUE
         IN  SerialSloc(f) + SumSloc(files \ {f})

\* The files whose open, read or parse failed.
FailedFiles == {f \in AllFiles : file_status[f] \in {"open", "read", "parse"}}

\* The threads whose counting partition holds files.
HasPartition(t) == count_partitions[t + 1].size > 0

\* The files the counting loop of thread t has gone through.
ProcessedFiles(t) ==
    {PathAt(count_partitions[t + 1].offset + i) : i \in 0..(local[t].index - 1)}

\* C1: the total that main reports is the serial sum of the SLOC values of
\* the discovered files that were parsed, each file counted once and none
\* skipped.
C1_TotalIsSerialSum ==
    main_pc \in {"report", "returned"}
        => line_message = SumSloc(FoundFiles \ FailedFiles)

\* C2: when main's TickWait has returned, every counting worker with a
\* non-empty partition has done its fetch_add and its final Exit().
C2_TotalReadAfterJoin ==
    main_pc # "tick_wait" => \A t \in Threads : HasPartition(t) => pc[t] = "done"

\* C3: at most one counting worker takes the leader branch, exactly one once
\* every worker has chosen its branch, and a worker whose Exit() returned
\* thread_count + 1 after the sentinel was published is a follower.
Leaders == {t \in Threads : local[t].branch = "leader"}
C3_ExactlyOneLeader ==
    /\ Cardinality(Leaders) <= 1
    /\ (\A t \in Threads : local[t].branch # "none") => Cardinality(Leaders) = 1
    /\ \A t \in Threads :
          local[t].branch = "follower" /\ local[t].enter_index = thread_count + 1
              => /\ Leaders # {}
                 /\ semaphore.target = signal_initialization_finished

\* A follower drew thread_count + 1 from the counter the leader re-raised.
C3_Witness ==
    /\ \A t \in Threads : local[t].branch # "none"
    /\ \E t \in Threads :
          local[t].branch = "follower" /\ local[t].enter_index = thread_count + 1

\* C4: reserved positions are pairwise distinct, and once every worker has
\* registered at the discovery join the collection holds exactly the files
\* under the roots, each once.
DiscoveryJoined == \A t \in Threads : pc[t] \notin {"list", "list_write", "list_arrive"}
C4_DiscoveryExact ==
    /\ \A t, u \in Threads :
          t # u /\ pc[t] = "list_write" /\ pc[u] = "list_write"
              => local[t].position # local[u].position
    /\ DiscoveryJoined =>
          /\ source_files.size = Cardinality(FoundFiles)
          /\ source_files.size <= MAX_FILES
          /\ {source_files.buffer[i] : i \in 0..(source_files.size - 1)} = FoundFiles

\* C5: the partitions are ordered by offset with offsets the running sum
\* from 0, their sizes sum to the item count and differ by at most 1, and the
\* first N % T of them hold N / T + 1 items, the others N / T.
C5_PartitionsEven ==
    part_pc = "done" =>
        LET P == part_result.parts
            T == part_threads
            N == part_items
        IN  /\ Len(P) = T
            /\ P[1].offset = 0
            /\ \A i \in 1..(T - 1) : P[i + 1].offset = P[i].offset + P[i].size
            /\ P[T].offset + P[T].size = N
            /\ \A i \in 1..T : P[i].size = (N \div T) + (IF i <= N % T THEN 1 ELSE 0)
            /\ \A i, j \in 1..T : P[i].size - P[j].size <= 1
            /\ \A i \in 1..T : P[i].size >= 0

\* Fewer items than workers: some partitions hold one item, some none.
C5_Witness ==
    /\ part_pc = "done"
    /\ part_items < part_threads
    /\ \E i, j \in 1..part_threads :
          part_result.parts[i].size = 1 /\ part_result.parts[j].size = 0

\* C6: the committed entries never exceed MAX_FILES and no append writes at
\* an index at or above MAX_FILES.
C6_WithinCapacity ==
    /\ source_files.written_count <= MAX_FILES
    /\ overflow = {}

\* The logical lines of a text: the segments between line terminators and
\* the segment up to the end.
RECURSIVE LogicalLines(_, _, _)
LogicalLines(text, i, line) ==
    IF i > Len(text) THEN <<line>>
    ELSE IF text[i] = NewLine THEN <<line>> \o LogicalLines(text, i + 1, <<>>)
    ELSE LogicalLines(text, i + 1, Append(line, text[i]))

IdentifierLines(text) ==
    LET lines == LogicalLines(text, 1, <<>>)
    IN  {k \in 1..Len(lines) :
            \E i \in 1..Len(lines[k]) : IsCodeIdentifierCharacter(lines[k][i])}

\* C7: GetSloc returns the number of logical lines that hold an identifier
\* character, the first line judged like the others.
C7_SlocIsIdentifierLines ==
    sloc_pc = "done" => sloc_count = Cardinality(IdentifierLines(content))

\* A blank first line, a line of braces and a counted line.
C7_Witness ==
    /\ sloc_pc = "done"
    /\ Len(content) >= 1 /\ content[1] = Space
    /\ LET lines == LogicalLines(content, 1, <<>>)
       IN  /\ Len(lines) >= 3
           /\ \A i \in 1..Len(lines[1]) : lines[1][i] = Space
           /\ \E k \in 2..Len(lines) : lines[k] = <<"{">>
    /\ sloc_count = 1

\* C8: a file with a multi-line comment that is never closed does not end
\* the process; it is logged as a parse failure in the buffer of the thread
\* that read it and adds nothing.
Unterminated(f) == HasUnterminatedComment(RemoveSingleLineComment(FileText(f)))
C8_UnterminatedIsFileError ==
    /\ aborted # "multi_line_comment"
    /\ \A f \in AllFiles :
          Unterminated(f) /\ file_status[f] \notin {"unknown", "open", "read"}
              => /\ file_status[f] = "parse"
                 /\ \E t \in Threads : <<"parse", f>> \in Range(error_message[t])

\* The threads that are in or behind the loop over their files.
InLoop(t) == pc[t] \in {"files", "add_total", "final_exit", "done"} /\ HasPartition(t)

\* C9: a file whose open or read failed is logged in the error buffer of the
\* thread that owns it and in no other, is not in the thread's subtotal, and
\* the loop goes on; the subtotal of a thread that has finished is in the
\* total.
C9_IOFailuresStayLocal ==
    /\ \A t \in Threads : InLoop(t) =>
          /\ local[t].index <= count_partitions[t + 1].size
          /\ pc[t] # "files" => local[t].index = count_partitions[t + 1].size
          /\ \A f \in ProcessedFiles(t) :
                file_status[f] \in {"open", "read"}
                    => /\ <<file_status[f], f>> \in Range(error_message[t])
                       /\ \A u \in Threads \ {t} :
                             \A e \in Range(error_message[u]) : e[2] # f
                       /\ \A e \in Range(additional_display_message[t]) : e[2] # f
          /\ local[t].thread_sloc =
                SumSloc({f \in ProcessedFiles(t) : file_status[f] = "counted"})
    /\ total_line_count =
          LET RECURSIVE Added(_)
              Added(ts) ==
                  IF ts = {} THEN 0
                  ELSE LET t == CHOOSE x \in ts : TRUE
                       IN  local[t].thread_sloc + Added(ts \ {t})
          IN  Added({t \in Threads : pc[t] \in {"final_exit", "done"} /\ HasPartition(t)})

\* A thread went on after a failed file, counted the next one and finished.
C9_Witness ==
    \E t \in Threads :
        /\ pc[t] = "done" /\ HasPartition(t)
        /\ local[t].index = 2
        /\ file_status[PathAt(count_partitions[t + 1].offset)] \in {"open", "read"}
        /\ file_status[PathAt(count_partitions[t + 1].offset + 1)] = "counted"
        /\ total_line_count = local[t].thread_sloc
        /\ total_line_count > 0

VisitorsOf(k) ==
    {t \in Threads : /\ list_partitions[t + 1].offset <= k
                     /\ k < list_partitions[t + 1].offset + list_partitions[t + 1].size}

\* C11: the listing partitions cover exactly the stored root paths: every
\* index offset + i that a listing worker reads from search_paths is below
\* the number of stored paths, and every stored path is in the partition of
\* exactly one worker.
C11_RootsStored ==
    /\ \A t \in Threads :
          \A i \in 0..(list_partitions[t + 1].size - 1) :
              list_partitions[t + 1].offset + i < Len(search_paths)
    /\ \A t \in Threads :
          pc[t] = "list" /\ local[t].root_index < list_partitions[t + 1].size
              => RootOf(t) < Len(search_paths)
    /\ \A k \in 0..(Len(search_paths) - 1) : Cardinality(VisitorsOf(k)) = 1

\* The threads that are in their counting task.
Counting(t) == pc[t] \notin {"list", "list_write", "list_arrive", "list_spin"}

\* The thread has computed the counting partitions (line 99 is behind it).
HasPartitioned(t) == local[t].branch = "leader" /\ pc[t] # "lead_partition"

\* C12: while any worker is in its counting task every worker has finished
\* its appends and registered at the discovery join, every reserved slot is
\* committed, and the partitions the leader computed cover the final
\* discovered-file count.
C12_CountingAfterDiscovery ==
    /\ \A t \in Threads :
          Counting(t) => /\ DiscoveryJoined
                         /\ semaphore.target >= thread_count
                         /\ source_files.written_count = source_files.size
    /\ \A t \in Threads :
          HasPartitioned(t) =>
              /\ count_partitions[1].offset = 0
              /\ count_partitions[thread_count].offset
                     + count_partitions[thread_count].size = source_files.size

\* The leader has partitioned two discovered files while another worker is
\* still at the discovery join.
C12_Witness ==
    \E t, u \in Threads :
        /\ pc[t] = "lead_store"
        /\ pc[u] = "list_spin"
        /\ source_files.size = 2
        /\ count_partitions[thread_count].offset
               + count_partitions[thread_count].size = 2

\* The thread is at line 108 or behind it: it reads, or has read, its entry
\* of thread_partitions.
ReadsPartition(t) == pc[t] \in {"work", "files", "add_total", "final_exit", "done"}

\* Every entry of count_data.thread_partitions has been written.
PartitionsWritten == \A i \in 1..thread_count : count_partitions[i].size >= 0

\* C13: a worker reads its entry of thread_partitions only when the leader
\* has written every entry and stored the sentinel; the sentinel is in
\* target only when ThreadPartitionStream has returned.
C13_PartitionReadAfterWritten ==
    /\ \A t \in Threads :
          ReadsPartition(t) =>
              /\ PartitionsWritten
              /\ semaphore.target = signal_initialization_finished
              /\ \E l \in Threads : HasPartitioned(l) /\ pc[l] # "lead_store"
    /\ semaphore.target = signal_initialization_finished =>
          /\ PartitionsWritten
          /\ \A t \in Threads : pc[t] # "lead_partition"

\* A follower is in its files while the leader has just stored the sentinel.
C13_Witness ==
    \E t, l \in Threads :
        /\ local[t].branch = "follower"
        /\ pc[t] = "files"
        /\ pc[l] = "lead_enter"

\* C14: once main's TickWait has returned and main reads the diagnostic
\* buffers, no worker writes to an error buffer or to a per-file report
\* buffer any more.
C14_BuffersQuietAfterJoin ==
    [][main_pc # "tick_wait" =>
          UNCHANGED <<error_message, additional_display_message>>]_vars

\* ----------------------------------------------------- fair scheduling
\* Every step of the task of worker t.
WorkerStep(t) ==
    \/ ListRequest(t) \/ ListWrite(t) \/ ListNextRoot(t) \/ ListUnstoredRoot(t)
    \/ ListExit(t) \/ ListArrive(t) \/ ListSpinWait(t)
    \/ CountExit(t) \/ CountElect(t)
    \/ LeadPartition(t) \/ LeadStore(t) \/ LeadEnter(t) \/ FollowerSpinWait(t)
    \/ Work(t) \/ CountFile(t) \/ CountFinish(t) \/ AddTotal(t) \/ FinalExit(t)

MainStep == MainTickWait \/ MainLoadTotal \/ MainReport

\* Each worker thread and the main thread is a thread of its own that the
\* operating system keeps scheduling: a step that stays possible is taken.
\* A spinning or polling thread is owed a step only while the value it waits
\* for stays in place.
Fairness ==
    /\ \A t \in 0..(MaxThreads - 1) : WF_vars(t \in Threads /\ WorkerStep(t))
    /\ WF_vars(MainStep)

FairSpec == Spec /\ Fairness

\* Every follower has left its SpinWait (and every worker chosen its branch).
FollowersReleased ==
    \A t \in Threads : local[t].branch # "none" /\ pc[t] # "spin_wait"

RunComplete ==
    /\ main_pc = "returned"
    /\ \A t \in Threads : Counting(t)
    /\ semaphore.target = signal_initialization_finished

C16_MainWaitsForEveryWorker ==
    /\ main_pc # "tick_wait" => \A t \in Threads : pc[t] = "done"
    /\ report # <<>> => \A t \in Threads : pc[t] = "done"

\* C16 (amended): main's TickWait returns, and a report is printed, only when
\* every worker has registered at the discovery join; a worker that stops
\* before its registration stalls the run.
C16_MainWaitsForDiscovery ==
    /\ main_pc # "tick_wait" => DiscoveryJoined
    /\ report # <<>> => DiscoveryJoined
    /\ ~DiscoveryJoined => /\ semaphore.target < thread_count
                           /\ semaphore.count > thread_count
                           /\ \A t \in Threads : ~Counting(t)

\* One worker has not registered and every other worker and main wait for it.
C16_Witness ==
    /\ thread_count >= 2
    /\ main_pc = "tick_wait"
    /\ \E s \in Threads :
          /\ pc[s] = "list_arrive"
          /\ \A t \in Threads \ {s} : pc[t] = "list_spin"

\* C17: once target holds the sentinel no step changes it; the step that
\* stores the sentinel finds target at thread_count with every listing worker
\* registered, and every other change of target is an increment below that.
C17_SentinelReadOnly ==
    [][/\ semaphore.target = signal_initialization_finished
            => semaphore'.target = signal_initialization_finished
       /\ (/\ semaphore.target # signal_initialization_finished
           /\ semaphore'.target = signal_initialization_finished)
            => /\ semaphore.target = thread_count
               /\ DiscoveryJoined
       /\ (/\ semaphore'.target # semaphore.target
           /\ semaphore'.target # signal_initialization_finished)
            => /\ semaphore'.target = semaphore.target + 1
               /\ semaphore'.target <= thread_count]_vars

\* The sentinel is still in target when every worker is done and main has
\* printed its report.
C17_Witness ==
    /\ thread_count >= 2
    /\ semaphore.target = signal_initialization_finished
    /\ \A t \in Threads : pc[t] = "done"
    /\ main_pc = "returned"
    /\ source_files.size = 2

\* C18: the counter never wraps: every step leaves it within
\* 0 .. 2 * thread_count + 1, a step that lowers it is an Exit() on a counter
\* above 0, the leader's Enter has a non-negative argument, and the counter
\* is 0 once every worker is done.
C18_CounterNeverWraps ==
    [][/\ semaphore'.count \in 0..(2 * thread_count + 1)
       /\ semaphore'.count < semaphore.count
            => semaphore.count > 0 /\ semaphore'.count = semaphore.count - 1
       /\ \A t \in Threads :
             pc[t] = "lead_enter" /\ pc'[t] = "work"
                 => /\ local[t].partitioning_thread_count >= 1
                    /\ semaphore'.count =
                           semaphore.count + local[t].partitioning_thread_count - 1
       /\ (\A t \in Threads : pc'[t] = "done") => semaphore'.count = 0]_vars

====
